---- MODULE Spec2Model ----
(***************************************************************************)
(* A model of vector.h: RawMemory<T> (an owned block of raw storage) and    *)
(* Vector<T> (a live-element count on top of one RawMemory).                *)
(*                                                                          *)
(* The heap is a pool of blocks; a block is a sequence of cells, a cell is  *)
(* Raw (no object lives there) or the value of the object constructed in    *)
(* it.  An element operation of a non-trivial T and operator new may throw: *)
(* every handler takes a fault f = [ph, k] naming the step that throws      *)
(* (ph = "none": nothing throws) and is translated statement by statement,  *)
(* the stack unwinding included.                                            *)
(***************************************************************************)
EXTENDS Integers, Sequences, FiniteSets, TLC

\* ---------------------------------------------------------------- bounds
MaxSize ==
    3
MaxSizePair ==
    2
\* the largest size of the scenario of C9
ScenarioSize ==
    5
NBufs ==
    3

\* ------------------------------------------------------------ cell values
\* storage obtained from operator new, holding no object
Raw ==
    -2
\* the state std::move leaves an object of class type in
Moved ==
    -1
\* T(): the value-initialised object
Default ==
    0

\* the values the calls are given: two, to tell the elements apart; with two
\* Vectors one, beside Default
Val == {1, 2}
PairVal == {1}
Vecs == {"a", "b"}
BufIds == 1..NBufs

\* The element types the template is instantiated with, by the traits the
\* code asks for (std::is_nothrow_move_constructible_v<T>,
\* std::is_copy_constructible_v<T>) and by whether T is trivial (int): a
\* trivial T throws nowhere, its move is a copy, and default-initialising it
\* leaves the cell's bytes as they are.
Types ==
    { [name |-> "int",  trivial |-> TRUE,  nothrowMove |-> TRUE,  copyable |-> TRUE],
      [name |-> "str",  trivial |-> FALSE, nothrowMove |-> TRUE,  copyable |-> TRUE],
      [name |-> "thr",  trivial |-> FALSE, nothrowMove |-> FALSE, copyable |-> TRUE],
      [name |-> "mov",  trivial |-> FALSE, nothrowMove |-> FALSE, copyable |-> FALSE] }

VARIABLES T, vec, heap, last

vars == <<T, vec, heap, last>>

\* ------------------------------------------------------------- faults
NoFault == [ph |-> "none", k |-> 0]

Faults(phases, n) ==
    {NoFault} \cup [ph : phases, k : 1..n]

\* which element operations of T can throw
ThrowsCtor == ~T.trivial
ThrowsCopy == ~T.trivial
ThrowsMove == ~T.nothrowMove

\* what std::move(x) leaves in x
MovedFrom(v) ==
    IF T.trivial THEN v ELSE Moved

\* if constexpr (is_nothrow_move_constructible_v<T> || !is_copy_constructible_v<T>)
MigrateByMove ==
    T.nothrowMove \/ ~T.copyable

\* ------------------------------------------------------------ RawMemory
\* mem = [cells, leak, misuse]: the heap, whether a block was released with a
\* live object in it, whether a cell was destroyed while Raw, constructed
\* while live, or a block released twice.
Mem(cells) ==
    [cells |-> cells, leak |-> FALSE, misuse |-> FALSE]

FreeIds(cells) ==
    {i \in BufIds : cells[i] = <<>>}

\* the address operator new returns for n cells; nullptr (0) for n = 0
NewId(cells, n) ==
    IF n = 0 THEN 0
    ELSE CHOOSE i \in FreeIds(cells) : \A j \in FreeIds(cells) : i <= j

Allocate(mem, n) ==
    IF n = 0 THEN mem
    ELSE [mem EXCEPT !.cells[NewId(mem.cells, n)] = [i \in 1..n |-> Raw]]

Deallocate(mem, id) ==
    IF id = 0 THEN mem
    ELSE [cells  |-> [mem.cells EXCEPT ![id] = <<>>],
          leak   |-> mem.leak \/ \E i \in DOMAIN mem.cells[id] : mem.cells[id][i] # Raw,
          misuse |-> mem.misuse \/ mem.cells[id] = <<>>]

\* new (p) T(v)
ConstructAt(mem, id, i, v) ==
    [mem EXCEPT !.cells[id][i] = v,
                !.misuse = mem.misuse \/ mem.cells[id][i] # Raw]

\* std::destroy_n(buf + off, n)
DestroyN(mem, id, off, n) ==
    IF n = 0 THEN mem
    ELSE [mem EXCEPT
            !.cells[id] = [i \in DOMAIN mem.cells[id] |->
                             IF off < i /\ i <= off + n THEN Raw ELSE mem.cells[id][i]],
            !.misuse = mem.misuse
                         \/ \E i \in (off + 1)..(off + n) : mem.cells[id][i] = Raw]

\* an uninitialized_copy_n that leaves the copies it made when one throws
UninitializedCopyNNoRollback(mem, src, soff, n, dst, doff, k) ==
    LET j == IF k = 0 THEN n ELSE k - 1
        built == IF j = 0 THEN mem
                 ELSE [mem EXCEPT !.cells[dst] =
                         [i \in DOMAIN mem.cells[dst] |->
                            IF doff < i /\ i <= doff + j
                            THEN mem.cells[src][soff + (i - doff)]
                            ELSE mem.cells[dst][i]]]
    IN  [mem |-> built, thrown |-> k # 0]

\* std::uninitialized_copy_n(src + soff, n, dst + doff); the k-th copy throws
\* (k = 0: none does), and the copies made before it are destroyed.
UninitializedCopyN(mem, src, soff, n, dst, doff, k) ==
    LET j == IF k = 0 THEN n ELSE k - 1
        built == IF j = 0 THEN mem
                 ELSE [mem EXCEPT !.cells[dst] =
                         [i \in DOMAIN mem.cells[dst] |->
                            IF doff < i /\ i <= doff + j
                            THEN mem.cells[src][soff + (i - doff)]
                            ELSE mem.cells[dst][i]]]
    IN  IF k = 0 THEN [mem |-> built, thrown |-> FALSE]
        ELSE [mem |-> DestroyN(built, dst, doff, j), thrown |-> TRUE]

\* std::uninitialized_move_n(src + soff, n, dst + doff); the k-th move throws
\* (k = 0: none does); the objects constructed before it are destroyed, their
\* sources stay moved-from.
UninitializedMoveN(mem, src, soff, n, dst, doff, k) ==
    LET j == IF k = 0 THEN n ELSE k - 1
        built == IF j = 0 THEN mem
                 ELSE [mem EXCEPT
                         !.cells[dst] =
                           [i \in DOMAIN mem.cells[dst] |->
                              IF doff < i /\ i <= doff + j
                              THEN mem.cells[src][soff + (i - doff)]
                              ELSE mem.cells[dst][i]],
                         !.cells[src] =
                           [i \in DOMAIN mem.cells[src] |->
                              IF soff < i /\ i <= soff + j
                              THEN MovedFrom(mem.cells[src][i])
                              ELSE mem.cells[src][i]]]
    IN  IF k = 0 THEN [mem |-> built, thrown |-> FALSE]
        ELSE [mem |-> DestroyN(built, dst, doff, j), thrown |-> TRUE]

\* a migration that moves whatever the element type
MigrateNAlwaysMove(mem, src, soff, n, dst, doff, k) ==
    UninitializedMoveN(mem, src, soff, n, dst, doff, k)

\* the migration of Reserve, EmplaceBack and Emplace
MigrateN(mem, src, soff, n, dst, doff, k) ==
    IF MigrateByMove THEN UninitializedMoveN(mem, src, soff, n, dst, doff, k)
    ELSE UninitializedCopyN(mem, src, soff, n, dst, doff, k)

\* whether the migration's element operation can throw
ThrowsMigrate ==
    IF MigrateByMove THEN ThrowsMove ELSE ThrowsCopy

\* --------------------------------------------------------------- Vector
\* Vector() = default; also the record of a Vector that is not constructed
\* (alive = FALSE).
EmptyVector(alive) ==
    [alive |-> alive, buffer_ |-> 0, capacity_ |-> 0, size_ |-> 0]

Size(V) == V.size_
Capacity(V) == V.capacity_

\* the elements operator[] reads at 0..Size()-1
ElemsOf(V, cells) ==
    [i \in 1..V.size_ |-> cells[V.buffer_][i]]

Elems(x) == ElemsOf(vec[x], heap)

\* The result of a handler: the Vector, the heap, and what was thrown
\* ("": it returned).
Result(V, mem, thrown) ==
    [V |-> V, mem |-> mem, thrown |-> thrown]

\* a growth by one slot instead of a doubling
GrownCapacityByOne(V) ==
    V.size_ + 1

\* (size_ == 0) ? 1 : size_ * 2
GrownCapacity(V) ==
    IF V.size_ = 0 THEN 1 ELSE V.size_ * 2

\* T& EmplaceBack(Args&&... args), the new element's value being v
EmplaceBack(V, mem, v, f) ==
    IF V.size_ = V.capacity_
    THEN IF f.ph = "alloc" THEN Result(V, mem, "alloc")
         ELSE
         LET n  == GrownCapacity(V)
             nb == NewId(mem.cells, n)
             m1 == Allocate(mem, n)
         IN  IF f.ph = "ctor" THEN Result(V, Deallocate(m1, nb), "ctor")
             ELSE
             LET m2 == ConstructAt(m1, nb, V.size_ + 1, v)
                 r  == MigrateN(m2, V.buffer_, 0, V.size_, nb, 0,
                                IF f.ph = "migrate" THEN f.k ELSE 0)
             IN  IF r.thrown
                 THEN \* ~RawMemory of new_data: nothing destroys new_data[size_]
                      Result(V, Deallocate(r.mem, nb), "migrate")
                 ELSE \* data_.Swap(new_data); destroy_n(new_data, size_); ~new_data
                      Result([V EXCEPT !.buffer_ = nb, !.capacity_ = n,
                                       !.size_ = V.size_ + 1],
                             Deallocate(DestroyN(r.mem, V.buffer_, 0, V.size_), V.buffer_),
                             "")
    ELSE IF f.ph = "ctor" THEN Result(V, mem, "ctor")
         ELSE Result([V EXCEPT !.size_ = V.size_ + 1],
                     ConstructAt(mem, V.buffer_, V.size_ + 1, v), "")

\* the faults EmplaceBack can meet in the state V
EmplaceBackFaults(V) ==
    {f \in Faults({"alloc", "ctor", "migrate"}, V.size_) :
        \/ f.ph = "none"
        \/ f.ph = "alloc" /\ V.size_ = V.capacity_ /\ f.k = 1
        \/ f.ph = "ctor" /\ ThrowsCtor /\ f.k = 1
        \/ f.ph = "migrate" /\ V.size_ = V.capacity_ /\ ThrowsMigrate}

\* a Reserve that adopts the new storage without migrating the elements
ReserveWithoutMigration(V, mem, n, f) ==
    IF n <= V.capacity_ THEN Result(V, mem, "")
    ELSE LET nb == NewId(mem.cells, n)
             m1 == Allocate(mem, n)
         IN  Result([V EXCEPT !.buffer_ = nb, !.capacity_ = n],
                    Deallocate(DestroyN(m1, V.buffer_, 0, V.size_), V.buffer_), "")

\* void Reserve(size_t capacity), the requested capacity being n
Reserve(V, mem, n, f) ==
    IF n <= V.capacity_ THEN Result(V, mem, "")
    ELSE IF f.ph = "alloc" THEN Result(V, mem, "alloc")
    ELSE
    LET nb == NewId(mem.cells, n)
        m1 == Allocate(mem, n)
        r  == MigrateN(m1, V.buffer_, 0, V.size_, nb, 0,
                       IF f.ph = "migrate" THEN f.k ELSE 0)
    IN  IF r.thrown THEN Result(V, Deallocate(r.mem, nb), "migrate")
        ELSE \* destroy_n(begin(), size_); data_.Swap(new_data); ~new_data
             Result([V EXCEPT !.buffer_ = nb, !.capacity_ = n],
                    Deallocate(DestroyN(r.mem, V.buffer_, 0, V.size_), V.buffer_), "")

ReserveFaults(V, n) ==
    {f \in Faults({"alloc", "migrate"}, V.size_) :
        \/ f.ph = "none"
        \/ f.ph = "alloc" /\ n > V.capacity_ /\ f.k = 1
        \/ f.ph = "migrate" /\ n > V.capacity_ /\ ThrowsMigrate}

\* std::uninitialized_default_construct_n(buf + off, n): each object is
\* default-initialised, `new (p) T;`. A class type runs its default
\* constructor (the k-th throws, the ones built are destroyed); a trivial T is
\* not initialised at all, and the cell reads as whatever its bytes hold: g[i].
UninitializedDefaultConstructN(mem, id, off, n, g, k) ==
    LET j == IF k = 0 THEN n ELSE k - 1
        built == IF j = 0 THEN mem
                 ELSE [mem EXCEPT
                         !.cells[id] =
                           [i \in DOMAIN mem.cells[id] |->
                              IF off < i /\ i <= off + j
                              THEN (IF T.trivial THEN g[i - off] ELSE Default)
                              ELSE mem.cells[id][i]],
                         !.misuse = mem.misuse
                              \/ \E i \in (off + 1)..(off + j) : mem.cells[id][i] # Raw]
    IN  IF k = 0 THEN [mem |-> built, thrown |-> FALSE]
        ELSE [mem |-> DestroyN(built, id, off, j), thrown |-> TRUE]

\* void Resize(size_t new_size), the new size being n
Resize(V, mem, n, g, f) ==
    IF n = V.size_ THEN Result(V, mem, "")
    ELSE IF n < V.size_
    THEN Result([V EXCEPT !.size_ = n], DestroyN(mem, V.buffer_, n, V.size_ - n), "")
    ELSE
    LET rs == Reserve(V, mem, n, f)
    IN  IF rs.thrown # "" THEN rs
        ELSE
        LET d == UninitializedDefaultConstructN(rs.mem, rs.V.buffer_, V.size_,
                     n - V.size_, g, IF f.ph = "default" THEN f.k ELSE 0)
        IN  IF d.thrown THEN Result(rs.V, d.mem, "default")
            ELSE Result([rs.V EXCEPT !.size_ = n], d.mem, "")

ResizeFaults(V, n) ==
    {f \in Faults({"alloc", "migrate", "default"}, n) :
        \/ f \in ReserveFaults(V, n) /\ (f.ph = "none" \/ n > V.size_)
        \/ f.ph = "default" /\ ThrowsCtor /\ f.k <= n - V.size_}

\* void PopBack()
PopBack(V, mem) ==
    Result([V EXCEPT !.size_ = V.size_ - 1], DestroyN(mem, V.buffer_, V.size_ - 1, 1), "")

\* a reallocating Emplace without the two handlers of its copy migration
EmplaceReallocNoCatch(V, mem, index, v, f) ==
    IF f.ph = "alloc" THEN Result(V, mem, "alloc")
    ELSE
    LET n  == GrownCapacity(V)
        nb == NewId(mem.cells, n)
        m1 == Allocate(mem, n)
    IN  IF f.ph = "ctor" THEN Result(V, Deallocate(m1, nb), "ctor")
        ELSE
        LET m2 == ConstructAt(m1, nb, index + 1, v)
            p  == MigrateN(m2, V.buffer_, 0, index, nb, 0,
                           IF f.ph = "prefix" THEN f.k ELSE 0)
        IN  IF p.thrown THEN Result(V, Deallocate(p.mem, nb), "prefix")
            ELSE
            LET s  == MigrateN(p.mem, V.buffer_, index, V.size_ - index, nb, index + 1,
                               IF f.ph = "suffix" THEN f.k ELSE 0)
            IN  IF s.thrown THEN Result(V, Deallocate(s.mem, nb), "suffix")
                ELSE Result([V EXCEPT !.buffer_ = nb, !.capacity_ = n,
                                      !.size_ = V.size_ + 1],
                            Deallocate(DestroyN(s.mem, V.buffer_, 0, V.size_), V.buffer_),
                            "")

\* Emplace's branch `size_ == Capacity()`, index = pos - cbegin()
EmplaceRealloc(V, mem, index, v, f) ==
    IF f.ph = "alloc" THEN Result(V, mem, "alloc")
    ELSE
    LET n  == GrownCapacity(V)
        nb == NewId(mem.cells, n)
        m1 == Allocate(mem, n)
    IN  IF f.ph = "ctor" THEN Result(V, Deallocate(m1, nb), "ctor")
        ELSE
        LET m2 == ConstructAt(m1, nb, index + 1, v)
            p  == MigrateN(m2, V.buffer_, 0, index, nb, 0,
                           IF f.ph = "prefix" THEN f.k ELSE 0)
            \* catch (...) { destroy_at(new_data + index); throw; }: copies only
            pc == IF MigrateByMove THEN p.mem ELSE DestroyN(p.mem, nb, index, 1)
        IN  IF p.thrown THEN Result(V, Deallocate(pc, nb), "prefix")
            ELSE
            LET s  == MigrateN(p.mem, V.buffer_, index, V.size_ - index, nb, index + 1,
                               IF f.ph = "suffix" THEN f.k ELSE 0)
                \* catch (...) { destroy_n(new_data, index + 1); throw; }: copies only
                sc == IF MigrateByMove THEN s.mem ELSE DestroyN(s.mem, nb, 0, index + 1)
            IN  IF s.thrown THEN Result(V, Deallocate(sc, nb), "suffix")
                ELSE \* destroy_n(begin(), size_); data_.Swap(new_data); ~new_data
                     Result([V EXCEPT !.buffer_ = nb, !.capacity_ = n,
                                      !.size_ = V.size_ + 1],
                            Deallocate(DestroyN(s.mem, V.buffer_, 0, V.size_), V.buffer_),
                            "")

\* an in-place Emplace that shifts nothing
ShiftedUpNot(c, size, j) ==
    c

\* the cells of V's block after new (data_ + size_) T(std::move(data_[size_ - 1]))
\* and the first j assignments of std::move_backward(pos, end() - 1, end())
ShiftedUp(c, size, j) ==
    [i \in DOMAIN c |->
        IF i = size + 1 THEN c[size]
        ELSE IF size - j < i /\ i <= size THEN c[i - 1]
        ELSE IF i = size - j THEN MovedFrom(c[i])
        ELSE c[i]]

\* an in-place Emplace that shifts first and constructs the new value last
EmplaceInPlaceLateTemp(V, mem, index, v, f) ==
    LET c     == mem.cells[V.buffer_]
        shift == V.size_ - 1 - index
        j     == IF f.ph = "shift" THEN f.k - 1 ELSE shift
        moved == [mem EXCEPT !.cells[V.buffer_] = ShiftedUp(c, V.size_, j)]
    IN  IF f.ph = "movector" THEN Result(V, mem, "movector")
        ELSE IF f.ph \in {"shift", "assign", "ctor"} THEN Result(V, moved, f.ph)
        ELSE Result([V EXCEPT !.size_ = V.size_ + 1],
                    [moved EXCEPT !.cells[V.buffer_][index + 1] = v], "")

\* Emplace's branch `size_ < Capacity()`, index < size_
EmplaceInPlace(V, mem, index, v, f) ==
    LET c     == mem.cells[V.buffer_]
        shift == V.size_ - 1 - index
        j     == IF f.ph = "shift" THEN f.k - 1 ELSE shift
        moved == [mem EXCEPT !.cells[V.buffer_] = ShiftedUp(c, V.size_, j),
                             !.misuse = mem.misuse \/ c[V.size_ + 1] # Raw]
    IN  \* T temp(args)
        IF f.ph = "ctor" THEN Result(V, mem, "ctor")
        \* new (data_ + size_) T(std::move(data_[size_ - 1]))
        ELSE IF f.ph = "movector" THEN Result(V, mem, "movector")
        \* std::move_backward: the k-th assignment throws
        ELSE IF f.ph = "shift" THEN Result(V, moved, "shift")
        \* data_[index] = std::move(temp)
        ELSE IF f.ph = "assign" THEN Result(V, moved, "assign")
        ELSE Result([V EXCEPT !.size_ = V.size_ + 1],
                    [moved EXCEPT !.cells[V.buffer_][index + 1] = v], "")

\* iterator Emplace(const_iterator pos, Args&&... args), pos = cbegin() + index
Emplace(V, mem, index, v, f) ==
    IF index = V.size_ THEN EmplaceBack(V, mem, v, f)
    ELSE IF V.size_ = V.capacity_ THEN EmplaceRealloc(V, mem, index, v, f)
    ELSE EmplaceInPlace(V, mem, index, v, f)

EmplacePath(V, index) ==
    IF V.size_ = V.capacity_ THEN "realloc" ELSE "inplace"

EmplaceFaults(V, index) ==
    IF index = V.size_ THEN EmplaceBackFaults(V)
    ELSE IF V.size_ = V.capacity_
    THEN {f \in Faults({"alloc", "ctor", "prefix", "suffix"}, V.size_) :
            \/ f.ph = "none"
            \/ f.ph = "alloc" /\ f.k = 1
            \/ f.ph = "ctor" /\ ThrowsCtor /\ f.k = 1
            \/ f.ph = "prefix" /\ ThrowsMigrate /\ f.k <= index
            \/ f.ph = "suffix" /\ ThrowsMigrate /\ f.k <= V.size_ - index}
    ELSE {f \in Faults({"ctor", "movector", "shift", "assign"}, V.size_) :
            \/ f.ph = "none"
            \/ f.ph = "ctor" /\ ThrowsCtor /\ f.k = 1
            \/ f.ph = "movector" /\ ThrowsMove /\ f.k = 1
            \/ f.ph = "shift" /\ ThrowsMove /\ f.k <= V.size_ - 1 - index
            \/ f.ph = "assign" /\ ThrowsMove /\ f.k = 1}

\* an Erase that forgets to shift
ShiftedDownNot(c, index, j) ==
    c

\* the cells of V's block after the first j assignments of
\* std::move(&data_[index + 1], end(), &data_[index])
ShiftedDown(c, index, j) ==
    [i \in DOMAIN c |->
        IF index < i /\ i <= index + j THEN c[i + 1]
        ELSE IF i = index + j + 1 /\ j >= 1 THEN MovedFrom(c[i])
        ELSE c[i]]

\* iterator Erase(const_iterator pos), pos = cbegin() + index
Erase(V, mem, index, f) ==
    IF index = V.size_ - 1 THEN PopBack(V, mem)
    ELSE
    LET c     == mem.cells[V.buffer_]
        shift == V.size_ - 1 - index
        j     == IF f.ph = "shift" THEN f.k - 1 ELSE shift
        moved == [mem EXCEPT !.cells[V.buffer_] = ShiftedDown(c, index, j)]
    IN  IF f.ph = "shift" THEN Result(V, moved, "shift")
        ELSE \* destroy_at(end() - 1); --size_
             Result([V EXCEPT !.size_ = V.size_ - 1],
                    DestroyN(moved, V.buffer_, V.size_ - 1, 1), "")

EraseFaults(V, index) ==
    {f \in Faults({"shift"}, V.size_) :
        \/ f.ph = "none"
        \/ f.ph = "shift" /\ ThrowsMove /\ f.k <= V.size_ - 1 - index}

\* v[index] = value, through T& operator[](size_t index)
WriteAt(V, mem, index, v) ==
    Result(V, [mem EXCEPT !.cells[V.buffer_][index + 1] = v], "")

\* std::uninitialized_value_construct_n(buf, n): every object is T(); the
\* k-th constructor throws (k = 0: none does), the ones built are destroyed.
UninitializedValueConstructN(mem, id, n, k) ==
    LET j == IF k = 0 THEN n ELSE k - 1
        built == IF j = 0 THEN mem
                 ELSE [mem EXCEPT !.cells[id] =
                         [i \in DOMAIN mem.cells[id] |->
                            IF i <= j THEN Default ELSE mem.cells[id][i]]]
    IN  IF k = 0 THEN [mem |-> built, thrown |-> FALSE]
        ELSE [mem |-> DestroyN(built, id, 0, j), thrown |-> TRUE]

\* Vector(size_t size); a constructor that throws leaves no Vector
SizeConstruct(mem, n, f) ==
    IF f.ph = "alloc" THEN Result(EmptyVector(FALSE), mem, "alloc")
    ELSE
    LET nb == NewId(mem.cells, n)
        m1 == Allocate(mem, n)
        d  == UninitializedValueConstructN(m1, nb, n, IF f.ph = "default" THEN f.k ELSE 0)
    IN  IF d.thrown THEN Result(EmptyVector(FALSE), Deallocate(d.mem, nb), "default")
        ELSE Result([alive |-> TRUE, buffer_ |-> nb, capacity_ |-> n, size_ |-> n],
                    d.mem, "")

SizeConstructFaults(n) ==
    {f \in Faults({"alloc", "default"}, n) :
        \/ f.ph = "none"
        \/ f.ph = "alloc" /\ f.k = 1
        \/ f.ph = "default" /\ ThrowsCtor}

\* a copy that takes the source's block instead of copying into one of its own
CopyConstructShallow(W, mem, f) ==
    Result([alive |-> TRUE, buffer_ |-> W.buffer_, capacity_ |-> W.capacity_,
            size_ |-> W.size_], mem, "")

\* Vector(const Vector& other), other being W
CopyConstruct(W, mem, f) ==
    IF f.ph = "alloc" THEN Result(EmptyVector(FALSE), mem, "alloc")
    ELSE
    LET nb == NewId(mem.cells, W.size_)
        m1 == Allocate(mem, W.size_)
        r  == UninitializedCopyN(m1, W.buffer_, 0, W.size_, nb, 0,
                                 IF f.ph = "copy" THEN f.k ELSE 0)
    IN  IF r.thrown THEN Result(EmptyVector(FALSE), Deallocate(r.mem, nb), "copy")
        ELSE Result([alive |-> TRUE, buffer_ |-> nb, capacity_ |-> W.size_,
                     size_ |-> W.size_], r.mem, "")

CopyConstructFaults(W) ==
    {f \in Faults({"alloc", "copy"}, W.size_) :
        \/ f.ph = "none"
        \/ f.ph = "alloc" /\ f.k = 1
        \/ f.ph = "copy" /\ ThrowsCopy}

\* a Swap that exchanges the storage and forgets the sizes
SwapStorageOnly(V, W) ==
    [V |-> [V EXCEPT !.buffer_ = W.buffer_, !.capacity_ = W.capacity_],
     W |-> [W EXCEPT !.buffer_ = V.buffer_, !.capacity_ = V.capacity_]]

\* void Swap(Vector& other): data_.Swap(other.data_); std::swap(size_, other.size_)
Swap(V, W) ==
    [V |-> [V EXCEPT !.buffer_ = W.buffer_, !.capacity_ = W.capacity_, !.size_ = W.size_],
     W |-> [W EXCEPT !.buffer_ = V.buffer_, !.capacity_ = V.capacity_, !.size_ = V.size_]]

\* Vector(Vector&& other) noexcept
MoveConstruct(W) ==
    Swap(EmptyVector(TRUE), W)

\* Vector& operator=(Vector&& rhs) noexcept
MoveAssign(V, W) ==
    Swap(V, W)

\* ~Vector(), then ~RawMemory()
Destroy(V, mem) ==
    Result(EmptyVector(FALSE),
           Deallocate(DestroyN(mem, V.buffer_, 0, V.size_), V.buffer_), "")

\* std::copy_n(src, n, dst): the k-th assignment throws (k = 0: none does)
CopyN(mem, src, n, dst, k) ==
    LET j == IF k = 0 THEN n ELSE k - 1
    IN  [mem    |-> IF j = 0 THEN mem
                    ELSE [mem EXCEPT !.cells[dst] =
                            [i \in DOMAIN mem.cells[dst] |->
                               IF i <= j THEN mem.cells[src][i] ELSE mem.cells[dst][i]]],
         thrown |-> k # 0]

\* a copy-assignment that destroys its own elements and storage before it
\* copies the source's
CopyAssignClearFirst(V, W, same, mem, f) ==
    IF same THEN Result(V, mem, "")
    ELSE LET d  == Destroy(V, mem)
             cc == CopyConstruct(W, d.mem, f)
         IN  IF cc.thrown # "" THEN Result(EmptyVector(TRUE), cc.mem, cc.thrown)
             ELSE Result(cc.V, cc.mem, "")

\* a copy-assignment that always copies into a new Vector and swaps
CopyAssignAlwaysSwap(V, W, same, mem, f) ==
    IF same THEN Result(V, mem, "")
    ELSE LET cc == CopyConstruct(W, mem, NoFault)
         IN  Result(cc.V, Destroy(V, cc.mem).mem, "")

\* Vector& operator=(const Vector& rhs), rhs being W; same: this == &rhs
CopyAssign(V, W, same, mem, f) ==
    IF same THEN Result(V, mem, "")
    ELSE IF W.size_ > V.capacity_
    THEN LET cc == CopyConstruct(W, mem, f)
         IN  IF cc.thrown # "" THEN Result(V, cc.mem, cc.thrown)
             ELSE \* Swap(new_vector); ~new_vector
                  Result(cc.V, Destroy(V, cc.mem).mem, "")
    ELSE IF W.size_ < V.size_
    THEN LET a == CopyN(mem, W.buffer_, W.size_, V.buffer_,
                        IF f.ph = "assign" THEN f.k ELSE 0)
         IN  IF a.thrown THEN Result(V, a.mem, "assign")
             ELSE Result([V EXCEPT !.size_ = W.size_],
                         DestroyN(a.mem, V.buffer_, W.size_, V.size_ - W.size_), "")
    ELSE LET a == CopyN(mem, W.buffer_, V.size_, V.buffer_,
                        IF f.ph = "assign" THEN f.k ELSE 0)
         IN  IF a.thrown THEN Result(V, a.mem, "assign")
             ELSE
             LET u == UninitializedCopyN(a.mem, W.buffer_, V.size_, W.size_ - V.size_,
                          V.buffer_, V.size_, IF f.ph = "copy" THEN f.k ELSE 0)
             IN  IF u.thrown THEN Result(V, u.mem, "copy")
                 ELSE Result([V EXCEPT !.size_ = W.size_], u.mem, "")

CopyAssignPath(V, W, same) ==
    IF same THEN "self"
    ELSE IF W.size_ > V.capacity_ THEN "realloc"
    ELSE IF W.size_ < V.size_ THEN "shrink"
    ELSE "grow"

CopyAssignFaults(V, W, same) ==
    LET path == CopyAssignPath(V, W, same)
    IN  {f \in Faults({"alloc", "copy", "assign"}, W.size_) :
            \/ f.ph = "none"
            \/ f.ph = "alloc" /\ path = "realloc" /\ f.k = 1
            \/ f.ph = "copy" /\ ThrowsCopy /\ path = "realloc"
            \/ f.ph = "copy" /\ ThrowsCopy /\ path = "grow" /\ f.k <= W.size_ - V.size_
            \/ f.ph = "assign" /\ ThrowsCopy /\ path = "shrink"
            \/ f.ph = "assign" /\ ThrowsCopy /\ path = "grow" /\ f.k <= V.size_}

\* ------------------------------------------- arguments that alias an element
\* EmplaceBack(data_[j]) through PushBack(const T&): the argument refers to an
\* element of this Vector, and T(args) reads it in the first statement of
\* either path, before any element is moved
EmplaceBackRef(V, mem, j, f) ==
    EmplaceBack(V, mem, mem.cells[V.buffer_][j + 1], f)

\* an Emplace whose in-place path reads the referenced element when it assigns
\* to the target slot, after the shift
EmplaceRefLateRead(V, mem, index, j, f) ==
    LET c == mem.cells[V.buffer_]
    IN  IF index < V.size_ /\ V.size_ < V.capacity_
        THEN EmplaceInPlace(V, mem, index,
                            ShiftedUp(c, V.size_, V.size_ - 1 - index)[j + 1], f)
        ELSE Emplace(V, mem, index, c[j + 1], f)

\* Emplace(pos, data_[j]) through Insert(const_iterator, const T&): T(args) at
\* new_data + index, or T temp(args), reads the element before any is moved
EmplaceRef(V, mem, index, j, f) ==
    Emplace(V, mem, index, mem.cells[V.buffer_][j + 1], f)

\* ------------------------------------------------------- returned iterators
\* begin() + index of V: the block and the offset in it
Iterator(V, index) ==
    [buf |-> V.buffer_, off |-> index]

\* what Emplace returns, V being the Vector before the call and R after it:
\* &(EmplaceBack(...)), which is &data_[size_ - 1], when pos == cend(), and
\* &(data_[index]) otherwise
EmplaceReturn(V, R, index) ==
    IF index = V.size_ THEN Iterator(R, R.size_ - 1)
    ELSE Iterator(R, index)

\* an Erase that returns the position after the erased one
EraseReturnNext(V, R, index) ==
    Iterator(R, index + 1)

\* what Erase returns: end() after PopBack() when pos == cend() - 1, and
\* &(data_[index]) otherwise
EraseReturn(V, R, index) ==
    IF index = V.size_ - 1 THEN Iterator(R, R.size_)
    ELSE Iterator(R, index)

\* ----------------------------------------------------------- the actions
\* What the last call was: the operation op on the Vector x (and y), the path
\* it took, what it threw ("": it returned), whether it released a block with
\* a live object in it (leak) or destroyed, constructed or released what it must
\* not (misuse). For a call that returned, n is its index or size argument
\* and ret the iterator an Insert or Erase returned.
\*   pre, rt, mid: the elements x had before a returned Insert or shrinking
\*     Resize, kept (rt says which pair) over the Erase at the same index or the
\*     Resize back to the old size that follows it at once; mid is the size in
\*     between the two Resizes.
\*   fresh, log: whether "a" has seen nothing but returned PushBacks since
\*     Vector(), and the values they appended.
Called(op, x, y, n, v, path, r) ==
    LET ok    == r.thrown = ""
        undo  == /\ ok /\ op = "Erase" /\ last.op = "Insert" /\ last.thrown = ""
                 /\ last.x = x /\ last.n = n
        regrow == /\ ok /\ op = "Resize" /\ last.op = "Resize" /\ last.path = "shrink"
                  /\ last.x = x /\ n = Len(last.pre) /\ n > vec[x].size_
        mine  == x = "a" \/ y = "a"
    IN  [op |-> op, x |-> x, y |-> y, path |-> path,
         thrown |-> r.thrown, leak |-> r.mem.leak, misuse |-> r.mem.misuse,
         n |-> IF ok /\ op \in {"Insert", "Erase", "Resize"} THEN n ELSE 0,
         ret |-> IF ok /\ op = "Insert" THEN EmplaceReturn(vec[x], r.V, n)
                 ELSE IF ok /\ op = "Erase" THEN EraseReturn(vec[x], r.V, n)
                 ELSE Iterator(EmptyVector(TRUE), 0),
         pre |-> IF ok /\ (op = "Insert" \/ path = "shrink") THEN Elems(x)
                 ELSE IF undo \/ regrow THEN last.pre
                 ELSE <<>>,
         rt |-> IF undo THEN "InsertErase" ELSE IF regrow THEN "ResizeResize" ELSE "",
         mid |-> IF regrow THEN vec[x].size_ ELSE 0,
         fresh |-> IF ~mine THEN last.fresh
                   ELSE \/ op = "Vector" /\ x = "a"
                        \/ last.fresh /\ op = "PushBack" /\ ok,
         log |-> IF ~mine THEN last.log
                 ELSE IF last.fresh /\ op = "PushBack" /\ ok THEN Append(last.log, v)
                 ELSE <<>>]

\* a call on x alone
Commit(op, x, n, v, path, r) ==
    /\ vec' = [vec EXCEPT ![x] = r.V]
    /\ heap' = r.mem.cells
    /\ last' = Called(op, x, "", n, v, path, r)
    /\ UNCHANGED T

\* a call on x with the Vector y as its argument, sw being what it leaves in
\* both
Commit2(op, x, y, path, sw, mem, thrown) ==
    /\ vec' = [z \in Vecs |-> IF z = x THEN sw.V ELSE IF z = y THEN sw.W ELSE vec[z]]
    /\ heap' = mem.cells
    /\ last' = Called(op, x, y, 0, 0, path, [thrown |-> thrown, mem |-> mem])
    /\ UNCHANGED T

PushBack(x, v, bound) ==
    /\ vec[x].alive
    /\ vec[x].size_ < bound
    /\ \E f \in EmplaceBackFaults(vec[x]) :
         Commit("PushBack", x, 0, v,
                IF vec[x].size_ = vec[x].capacity_ THEN "realloc" ELSE "inplace",
                EmplaceBack(vec[x], Mem(heap), v, f))

Reserving(x, n) ==
    /\ vec[x].alive
    /\ \E f \in ReserveFaults(vec[x], n) :
         Commit("Reserve", x, n, 0,
                IF n > vec[x].capacity_ THEN "realloc" ELSE "noop",
                Reserve(vec[x], Mem(heap), n, f))

\* the bytes a trivial T's cells may hold when n of them are default-initialised
Indeterminate(n, values) ==
    [1..n -> IF T.trivial THEN values ELSE {Default}]

\* how many elements Resize(n) adds to V
Added(V, n) ==
    IF n > V.size_ THEN n - V.size_ ELSE 0

ResizePath(V, n) ==
    IF n < V.size_ THEN "shrink"
    ELSE IF n = V.size_ THEN "noop"
    ELSE IF n > V.capacity_ THEN "realloc" ELSE "inplace"

Resizing(x, n, values) ==
    /\ vec[x].alive
    /\ \E f \in ResizeFaults(vec[x], n), g \in Indeterminate(Added(vec[x], n), values) :
         Commit("Resize", x, n, 0, ResizePath(vec[x], n),
                Resize(vec[x], Mem(heap), n, g, f))

PoppingBack(x) ==
    /\ vec[x].alive
    /\ vec[x].size_ > 0
    /\ Commit("PopBack", x, 0, 0, "", PopBack(vec[x], Mem(heap)))

Inserting(x, index, v, bound) ==
    /\ vec[x].alive
    /\ vec[x].size_ < bound
    /\ index <= vec[x].size_
    /\ \E f \in EmplaceFaults(vec[x], index) :
         Commit("Insert", x, index, v, EmplacePath(vec[x], index),
                Emplace(vec[x], Mem(heap), index, v, f))

Erasing(x, index) ==
    /\ vec[x].alive
    /\ index < vec[x].size_
    /\ \E f \in EraseFaults(vec[x], index) :
         Commit("Erase", x, index, 0,
                IF index = vec[x].size_ - 1 THEN "pop" ELSE "shift",
                Erase(vec[x], Mem(heap), index, f))

Writing(x, index, v) ==
    /\ vec[x].alive
    /\ index < vec[x].size_
    /\ Commit("Write", x, index, v, "", WriteAt(vec[x], Mem(heap), index, v))

DefaultConstructing(x) ==
    /\ ~vec[x].alive
    /\ Commit("Vector", x, 0, 0, "", Result(EmptyVector(TRUE), Mem(heap), ""))

SizeConstructing(x, n) ==
    /\ ~vec[x].alive
    /\ \E f \in SizeConstructFaults(n) :
         Commit("VectorN", x, n, 0, "", SizeConstruct(Mem(heap), n, f))

CopyConstructing(x, y) ==
    /\ ~vec[x].alive
    /\ vec[y].alive
    /\ T.copyable
    /\ \E f \in CopyConstructFaults(vec[y]) :
         LET r == CopyConstruct(vec[y], Mem(heap), f)
         IN  Commit2("CopyConstruct", x, y, "", [V |-> r.V, W |-> vec[y]], r.mem, r.thrown)

MoveConstructing(x, y) ==
    /\ ~vec[x].alive
    /\ vec[y].alive
    /\ Commit2("MoveConstruct", x, y, "", MoveConstruct(vec[y]), Mem(heap), "")

CopyAssigning(x, y) ==
    /\ vec[x].alive
    /\ vec[y].alive
    /\ T.copyable
    /\ \E f \in CopyAssignFaults(vec[x], vec[y], x = y) :
         LET r == CopyAssign(vec[x], vec[y], x = y, Mem(heap), f)
         IN  Commit2("CopyAssign", x, y, CopyAssignPath(vec[x], vec[y], x = y),
                     [V |-> r.V, W |-> vec[y]], r.mem, r.thrown)

MoveAssigning(x, y) ==
    /\ vec[x].alive
    /\ vec[y].alive
    /\ Commit2("MoveAssign", x, y, "", MoveAssign(vec[x], vec[y]), Mem(heap), "")

Swapping(x, y) ==
    /\ vec[x].alive
    /\ vec[y].alive
    /\ Commit2("Swap", x, y, "", Swap(vec[x], vec[y]), Mem(heap), "")

Destroying(x) ==
    /\ vec[x].alive
    /\ Commit("Destroy", x, 0, 0, "", Destroy(vec[x], Mem(heap)))

Init ==
    /\ T \in Types
    /\ vec = [x \in Vecs |-> EmptyVector(x = "a")]
    /\ heap = [i \in BufIds |-> <<>>]
    /\ last = [op |-> "Vector", x |-> "a", y |-> "", path |-> "", thrown |-> "",
               leak |-> FALSE, misuse |-> FALSE, n |-> 0,
               ret |-> Iterator(EmptyVector(TRUE), 0), pre |-> <<>>, rt |-> "",
               mid |-> 0, fresh |-> TRUE, log |-> <<>>]

\* the values the bytes of an uninitialised int may read as
Indet == Val \cup {Default}
PairIndet == PairVal \cup {Default}

\* the operations on the one Vector "a", sizes up to MaxSize
Next ==
    \/ \E v \in Val : PushBack("a", v, MaxSize)
    \/ PoppingBack("a")
    \/ \E i \in 0..MaxSize, v \in Val : Inserting("a", i, v, MaxSize)
    \/ \E i \in 0..MaxSize : Erasing("a", i)
    \/ \E n \in 0..MaxSize : Reserving("a", n)
    \/ \E n \in 0..MaxSize : Resizing("a", n, Indet)
    \/ \E i \in 0..MaxSize, v \in Val : Writing("a", i, v)

Spec == Init /\ [][Next]_vars

\* Two Vectors of a copyable T, sizes up to MaxSizePair: the calls that take
\* one Vector are made on "a", those that take two on either.
NextPair ==
    \/ \E v \in PairVal : PushBack("a", v, MaxSizePair)
    \/ PoppingBack("a")
    \/ \E i \in 0..MaxSizePair, v \in PairVal : Inserting("a", i, v, MaxSizePair)
    \/ \E i \in 0..MaxSizePair : Erasing("a", i)
    \/ \E n \in 0..MaxSizePair : Reserving("a", n)
    \/ \E n \in 0..MaxSizePair : Resizing("a", n, PairIndet)
    \/ \E i \in 0..MaxSizePair, v \in PairVal : Writing("a", i, v)
    \/ \E x \in Vecs : DefaultConstructing(x)
    \/ \E x \in Vecs, n \in 0..MaxSizePair : SizeConstructing(x, n)
    \/ \E x, y \in Vecs : CopyConstructing(x, y)
    \/ \E x, y \in Vecs : MoveConstructing(x, y)
    \/ \E x, y \in Vecs : CopyAssigning(x, y)
    \/ \E x, y \in Vecs : MoveAssigning(x, y)
    \/ \E x, y \in Vecs : x # y /\ Swapping(x, y)
    \/ \E x \in Vecs : Destroying(x)

InitPair ==
    /\ Init
    /\ T.name \in {"int", "thr"}

SpecPair == InitPair /\ [][NextPair]_vars

\* v.PushBack(v[j])
PushBackSelf(x, j, bound) ==
    /\ vec[x].alive
    /\ T.copyable
    /\ vec[x].size_ < bound
    /\ j < vec[x].size_
    /\ \E f \in EmplaceBackFaults(vec[x]) :
         Commit("PushBackSelf", x, j, 0,
                IF vec[x].size_ = vec[x].capacity_ THEN "realloc" ELSE "inplace",
                EmplaceBackRef(vec[x], Mem(heap), j, f))

\* v.Insert(v.begin() + index, v[j])
InsertingSelf(x, index, j, bound) ==
    /\ vec[x].alive
    /\ T.copyable
    /\ vec[x].size_ < bound
    /\ index <= vec[x].size_
    /\ j < vec[x].size_
    /\ \E f \in EmplaceFaults(vec[x], index) :
         Commit("InsertSelf", x, index, 0, EmplacePath(vec[x], index),
                EmplaceRef(vec[x], Mem(heap), index, j, f))

\* the calls of Next and those whose argument is an element of the Vector
NextAlias ==
    \/ Next
    \/ \E j \in 0..MaxSize : PushBackSelf("a", j, MaxSize)
    \/ \E i, j \in 0..MaxSize : InsertingSelf("a", i, j, MaxSize)

SpecAlias == Init /\ [][NextAlias]_vars

\* The scenario of the specification's section 8 on a Vector<int>, call by
\* call: PushBack 1, 2, 3; Insert 9 at index 1; Erase at index 0; Resize(5);
\* Resize(1). ScenarioIndet is what the bytes of an uninitialised int may
\* read as.
ScenarioIndet == 0..9

NextScenario ==
    \/ /\ last.fresh
       /\ Len(last.log) < 3
       /\ PushBack("a", Len(last.log) + 1, ScenarioSize)
    \/ /\ last.op = "PushBack" /\ last.thrown = "" /\ Len(last.log) = 3
       /\ Inserting("a", 1, 9, ScenarioSize)
    \/ /\ last.op = "Insert" /\ last.thrown = ""
       /\ Erasing("a", 0)
    \/ /\ last.op = "Erase" /\ last.thrown = ""
       /\ Resizing("a", 5, ScenarioIndet)
    \/ /\ last.op = "Resize" /\ last.thrown = "" /\ last.n = 5
       /\ Resizing("a", 1, ScenarioIndet)

InitScenario ==
    /\ Init
    /\ T.name = "int"

SpecScenario == InitScenario /\ [][NextScenario]_vars

\* ================================================================ claims

\* the smallest value of the series c, 2c, 4c, ... that is >= n
RECURSIVE DoublingFrom(_, _)
DoublingFrom(c, n) ==
    IF c >= n THEN c ELSE DoublingFrom(2 * c, n)

\* C1 as stated: after N >= 0 PushBack calls on a default-constructed Vector
\* (all of them returned, nothing else called) Size() is N, the elements are
\* the appended values in order, and Capacity() is the smallest of 1, 2, 4,
\* ... that is >= N.
C1_AppendsAsStated ==
    last.fresh =>
        /\ vec["a"].size_ = Len(last.log)
        /\ Elems("a") = last.log
        /\ vec["a"].capacity_ = DoublingFrom(1, Len(last.log))

\* C1 amended: the same for N >= 1; after no append (N = 0) Capacity() is 0.
C1_Appends ==
    last.fresh =>
        /\ vec["a"].size_ = Len(last.log)
        /\ Elems("a") = last.log
        /\ vec["a"].capacity_ =
             IF Len(last.log) = 0 THEN 0 ELSE DoublingFrom(1, Len(last.log))

\* three appends of different values, capacity 4
C1_Witness ==
    /\ last.fresh
    /\ last.op = "PushBack"
    /\ Len(last.log) = 3
    /\ last.log[1] # last.log[2]
    /\ vec["a"].capacity_ = 4

\* C2 as stated (for two different Vectors): after Vector(Vector&&) and after
\* operator=(Vector&&) the destination x holds the elements the source y had,
\* in order, and the source is empty.
C2_MoveAsStated ==
    [][last'.op \in {"MoveConstruct", "MoveAssign"} /\ last'.x # last'.y =>
         /\ ElemsOf(vec'[last'.x], heap') = ElemsOf(vec[last'.y], heap)
         /\ vec'[last'.y].size_ = 0]_vars

\* C2 amended: the destination holds the elements the source had, in order;
\* the source holds the elements the destination had: none after
\* Vector(Vector&&), and after operator=(Vector&&) none only if the
\* destination was empty.
C2_Move ==
    [][last'.op \in {"MoveConstruct", "MoveAssign"} =>
         /\ ElemsOf(vec'[last'.x], heap') = ElemsOf(vec[last'.y], heap)
         /\ ElemsOf(vec'[last'.y], heap') =
              IF last'.op = "MoveConstruct" THEN <<>> ELSE ElemsOf(vec[last'.x], heap)
         /\ vec'[last'.y].alive]_vars

\* a move-assignment into a non-empty destination from a source of two
\* different elements
C2_Witness ==
    /\ last.op = "MoveAssign"
    /\ last.x # last.y
    /\ vec[last.x].size_ = 2
    /\ Elems(last.x)[1] # Elems(last.x)[2]
    /\ vec[last.y].size_ = 1

\* the calls that change one Vector's elements or storage
Mutations == {"PushBack", "PopBack", "Insert", "Erase", "Resize", "Reserve", "Write"}

\* V and W own no block in common
NoSharedBlock(V, W) ==
    ~(V.buffer_ = W.buffer_ /\ V.buffer_ # 0)

\* C3: after Vector(const Vector&) and after operator=(const Vector&) in each
\* of its branches the destination x has the size and the elements of the
\* source y, the source is unchanged, the two own different blocks; and a
\* call that changes one Vector (PushBack, Insert, Erase, Resize, Reserve, an
\* element write), returning or throwing, leaves the other Vector's size and
\* elements as they were.
C3_Copy ==
    [][/\ (last'.op \in {"CopyConstruct", "CopyAssign"} /\ last'.thrown = "" =>
             /\ vec'[last'.x].alive
             /\ vec'[last'.x].size_ = vec[last'.y].size_
             /\ ElemsOf(vec'[last'.x], heap') = ElemsOf(vec[last'.y], heap)
             /\ vec'[last'.y] = vec[last'.y]
             /\ ElemsOf(vec'[last'.y], heap') = ElemsOf(vec[last'.y], heap)
             /\ (last'.x # last'.y => NoSharedBlock(vec'[last'.x], vec'[last'.y])))
       /\ (last'.op \in Mutations =>
             \A z \in Vecs \ {last'.x} :
                /\ vec'[z] = vec[z]
                /\ ElemsOf(vec'[z], heap') = ElemsOf(vec[z], heap))]_vars

\* a copy-assignment that overwrote one element and constructed another in
\* place, from a source of two different elements
C3_Witness ==
    /\ last.op = "CopyAssign"
    /\ last.path = "grow"
    /\ last.thrown = ""
    /\ vec[last.x].size_ = 2
    /\ vec[last.x].capacity_ = 2
    /\ Elems(last.x) = Elems(last.y)
    /\ Elems(last.x)[1] # Elems(last.x)[2]
    /\ vec[last.x].buffer_ # vec[last.y].buffer_

\* C4: an Insert at an index in [0, size] that is followed at once by an Erase
\* at the same index leaves the size and every element as before the Insert.
C4_RoundTrip ==
    last.rt = "InsertErase" =>
        /\ vec[last.x].size_ = Len(last.pre)
        /\ Elems(last.x) = last.pre

\* an Insert in the middle that reallocated (2 elements, capacity 2 -> 4), and
\* the Erase that shifted the tail back
C4_Witness ==
    /\ last.rt = "InsertErase"
    /\ last.path = "shift"
    /\ last.n = 1
    /\ Len(last.pre) = 2
    /\ last.pre[1] # last.pre[2]
    /\ vec[last.x].capacity_ = 4

\* C5: when the construction of the new element throws in PushBack /
\* EmplaceBack or in Insert / Emplace (at any index, reallocating or in
\* place), the Vector (size, capacity, block) and every cell of the heap are
\* as before the call.
C5_CtorThrows ==
    [][last'.op \in {"PushBack", "Insert"} /\ last'.thrown = "ctor" =>
         /\ vec' = vec
         /\ heap' = heap]_vars

\* the new element's constructor threw in an in-place Insert before the end
C5_Witness ==
    /\ last.op = "Insert"
    /\ last.thrown = "ctor"
    /\ last.path = "inplace"
    /\ vec["a"].size_ = 2
    /\ vec["a"].capacity_ = 4

\* C6 as stated: when, in EmplaceBack's reallocating path with copy
\* migration, the copy of an existing element throws after the new element was
\* constructed in the new block, the new element and the copies made are
\* destroyed before the block is released (no block is released with a live
\* object), and the Vector and the heap are as before the call.
C6_BackMigrationAsStated ==
    [][/\ last'.op = "PushBack"
       /\ last'.path = "realloc"
       /\ last'.thrown = "migrate"
       /\ ~MigrateByMove
       => /\ ~last'.leak
          /\ ~last'.misuse
          /\ vec' = vec
          /\ heap' = heap]_vars

\* the cells of V's block that hold an object are exactly the first size_
Constructed(V, cells) ==
    /\ V.size_ <= V.capacity_
    /\ \A i \in 1..V.capacity_ : (cells[V.buffer_][i] # Raw) <=> (i <= V.size_)

\* C7 as stated: after every call, returned or thrown, every Vector has
\* size <= capacity and the constructed cells of its block are exactly those
\* at the indices [0, size).
C7_LiveRangeAsStated ==
    \A x \in Vecs : vec[x].alive => Constructed(vec[x], heap)

\* C8 as stated: Resize(m), m < s, followed at once by Resize(s) gives size s,
\* the elements at [0, m) as they were, and at [m, s) the default value.
C8_ResizeBackAsStated ==
    last.rt = "ResizeResize" =>
        /\ vec[last.x].size_ = Len(last.pre)
        /\ \A i \in 1..last.mid : Elems(last.x)[i] = last.pre[i]
        /\ \A i \in (last.mid + 1)..Len(last.pre) : Elems(last.x)[i] = Default

\* C9 as stated: the scenario, call by call.
C9_ScenarioAsStated ==
    [][/\ (last'.op = "PushBack" /\ last'.thrown = "" /\ Len(last'.log) = 3 =>
             vec'["a"].size_ = 3 /\ ElemsOf(vec'["a"], heap') = <<1, 2, 3>>)
       /\ (last'.op = "Insert" /\ last'.thrown = "" =>
             ElemsOf(vec'["a"], heap') = <<1, 9, 2, 3>>)
       /\ (last'.op = "Erase" /\ last'.thrown = "" =>
             ElemsOf(vec'["a"], heap') = <<9, 2, 3>>)
       /\ (last'.op = "Resize" /\ last'.thrown = "" /\ last'.n = 5 =>
             /\ vec'["a"].size_ = 5
             /\ ElemsOf(vec'["a"], heap') = <<9, 2, 3, Default, Default>>)
       /\ (last'.op = "Resize" /\ last'.thrown = "" /\ last'.n = 1 =>
             /\ ElemsOf(vec'["a"], heap') = <<9>>
             /\ vec'["a"].capacity_ = vec["a"].capacity_)]_vars

\* C10: Reserve, Resize, PushBack, PopBack, Insert, Erase and copy-assignment,
\* returning or throwing, never lower the capacity of their Vector; PopBack,
\* Erase and a shrinking Resize leave it as it was.
C10_CapacityMonotone ==
    [][last'.op \in {"Reserve", "Resize", "PushBack", "PopBack", "Insert", "Erase",
                     "CopyAssign"} =>
         /\ vec'[last'.x].capacity_ >= vec[last'.x].capacity_
         /\ (last'.op \in {"PopBack", "Erase"} \/ last'.path = "shrink" =>
               vec'[last'.x].capacity_ = vec[last'.x].capacity_)]_vars

\* a copy-assignment from an empty Vector to one of capacity 2, which keeps
\* its block
C10_Witness ==
    /\ last.op = "CopyAssign"
    /\ last.path = "shrink"
    /\ last.thrown = ""
    /\ vec[last.x].size_ = 0
    /\ vec[last.x].capacity_ = 2

\* C11: when, in Reserve(n) with n > capacity and copy migration, the copy of
\* an element throws, no block is released with a live object in it (the
\* copies made were destroyed), nothing is destroyed or released twice, the
\* new block is released, and the Vector has the buffer, size, capacity and
\* elements it had.
C11_ReserveCopyThrows ==
    [][/\ last'.op = "Reserve"
       /\ last'.thrown = "migrate"
       /\ ~MigrateByMove
       => /\ ~last'.leak
          /\ ~last'.misuse
          /\ vec' = vec
          /\ heap' = heap]_vars

\* a Reserve of a Vector of two elements whose copy migration threw
C11_Witness ==
    /\ last.op = "Reserve"
    /\ last.path = "realloc"
    /\ last.thrown = "migrate"
    /\ ~MigrateByMove
    /\ vec[last.x].size_ = 2
    /\ ~last.leak

\* C12: a copy-assignment whose source is larger than the destination's
\* capacity leaves, when the allocation or a copy throws, both Vectors and the
\* heap as they were; when it returns, the destination's capacity is the
\* source's size and the source is as it was.
C12_CopyAssignStrong ==
    [][last'.op = "CopyAssign" /\ last'.path = "realloc" =>
         IF last'.thrown # ""
         THEN /\ last'.thrown \in {"alloc", "copy"}
              /\ vec' = vec
              /\ heap' = heap
              /\ ~last'.leak
         ELSE /\ vec'[last'.x].capacity_ = vec[last'.y].size_
              /\ vec'[last'.y] = vec[last'.y]
              /\ heap'[vec[last'.y].buffer_] = heap[vec[last'.y].buffer_]]_vars

\* a copy-assignment to a Vector that holds an element, in which a copy threw
C12_Witness ==
    /\ last.op = "CopyAssign"
    /\ last.path = "realloc"
    /\ last.thrown = "copy"
    /\ vec[last.x].size_ >= 1
    /\ vec[last.y].size_ > vec[last.x].capacity_

\* C13: a Reserve(n) that returns leaves the size and every element as they
\* were; the capacity is the old one when n <= old capacity and n otherwise.
C13_ReserveFrame ==
    [][last'.op = "Reserve" /\ last'.thrown = "" =>
       \A n \in 0..MaxSize :
         Reserving("a", n) =>
           /\ vec'["a"].size_ = vec["a"].size_
           /\ ElemsOf(vec'["a"], heap') = Elems("a")
           /\ vec'["a"].capacity_ =
                IF n <= vec["a"].capacity_ THEN vec["a"].capacity_ ELSE n]_vars

\* a Reserve(3) that moved two elements out of a block of two cells
C13_Witness ==
    /\ last.op = "Reserve"
    /\ last.path = "realloc"
    /\ last.thrown = ""
    /\ vec[last.x].size_ = 2
    /\ vec[last.x].capacity_ = 3
    /\ Elems(last.x)[1] # Elems(last.x)[2]

\* the sequence s with v put in front of its element at the index i (from 0)
InsertAt(s, i, v) ==
    [k \in 1..(Len(s) + 1) |->
        IF k <= i THEN s[k] ELSE IF k = i + 1 THEN v ELSE s[k - 1]]

\* the sequence s without its element at the index i (from 0)
RemoveAt(s, i) ==
    [k \in 1..(Len(s) - 1) |-> IF k <= i THEN s[k] ELSE s[k + 1]]

\* C14: an Insert of v at an index i < size that returns gives the elements
\* e0..e(i-1), v, ei..e(s-1) and the size s + 1, and returns the iterator to
\* the index i of the Vector's storage; with size == capacity the capacity
\* becomes 2 * size, otherwise it stays; both paths give this same sequence.
C14_EmplaceResult ==
    [][last'.op = "Insert" /\ last'.thrown = "" =>
       \A i \in 0..MaxSize, v \in Val :
         i < vec["a"].size_ /\ Inserting("a", i, v, MaxSize) =>
           /\ vec'["a"].size_ = vec["a"].size_ + 1
           /\ ElemsOf(vec'["a"], heap') = InsertAt(Elems("a"), i, v)
           /\ last'.ret = [buf |-> vec'["a"].buffer_, off |-> i]
           /\ vec'["a"].capacity_ =
                IF vec["a"].size_ = vec["a"].capacity_ THEN 2 * vec["a"].size_
                ELSE vec["a"].capacity_
           /\ last'.path =
                IF vec["a"].size_ = vec["a"].capacity_ THEN "realloc" ELSE "inplace"]_vars

\* an Insert at the front of two elements, in place
C14_Witness ==
    /\ last.op = "Insert"
    /\ last.thrown = ""
    /\ last.path = "inplace"
    /\ last.n = 0
    /\ vec[last.x].size_ = 3
    /\ Elems(last.x)[2] # Elems(last.x)[3]

\* C15: an Erase at an index i < size that returns gives the elements
\* e0..e(i-1), e(i+1)..e(s-1) and the size s - 1 in the same storage of the
\* same capacity; one object was destroyed, the one in the last cell; it
\* returns the iterator to the index i, which is end() when i was the last.
C15_EraseResult ==
    [][last'.op = "Erase" /\ last'.thrown = "" =>
       LET x == last'.x
           V == vec[x]
           i == last'.n
       IN  /\ vec'[x].size_ = V.size_ - 1
           /\ ElemsOf(vec'[x], heap') = RemoveAt(Elems(x), i)
           /\ vec'[x].capacity_ = V.capacity_
           /\ vec'[x].buffer_ = V.buffer_
           /\ ~last'.misuse
           /\ \A k \in 1..V.capacity_ :
                (heap'[V.buffer_][k] = Raw) <=> (heap[V.buffer_][k] = Raw \/ k = V.size_)
           /\ last'.ret = [buf |-> V.buffer_, off |-> i]
           /\ (i = V.size_ - 1 => last'.ret = Iterator(vec'[x], vec'[x].size_))]_vars

\* an Erase at the front of three elements
C15_Witness ==
    /\ last.op = "Erase"
    /\ last.thrown = ""
    /\ last.n = 0
    /\ vec[last.x].size_ = 2
    /\ Elems(last.x)[1] # Elems(last.x)[2]

\* C16: when, in Emplace's reallocating path with copy migration, the copy of
\* a prefix or of a suffix element throws, the new block is released with no
\* live object in it, nothing was destroyed that was not constructed (or
\* twice), and the Vector and the heap are as before the call.
C16_EmplaceMigrationThrows ==
    [][/\ last'.op = "Insert"
       /\ last'.path = "realloc"
       /\ last'.thrown \in {"prefix", "suffix"}
       /\ ~MigrateByMove
       => /\ ~last'.leak
          /\ ~last'.misuse
          /\ vec' = vec
          /\ heap' = heap]_vars

\* an Insert into a full Vector of two elements in which a suffix copy threw
C16_Witness ==
    /\ last.op = "Insert"
    /\ last.path = "realloc"
    /\ last.thrown = "suffix"
    /\ ~MigrateByMove
    /\ vec[last.x].size_ = 2
    /\ ~last.leak

\* C17 as stated: in every call, returned or thrown, no block is released with
\* a live object in it, no cell is destroyed while raw (or twice), no block is
\* released twice; and a call that throws releases no block and destroys no
\* object that existed before it.
C17_DestroyedOnceAsStated ==
    [][/\ ~last'.leak
       /\ ~last'.misuse
       /\ (last'.thrown # "" =>
             \A b \in BufIds :
                heap[b] # <<>> =>
                  /\ Len(heap'[b]) = Len(heap[b])
                  /\ \A k \in 1..Len(heap[b]) :
                       heap[b][k] # Raw => heap'[b][k] # Raw)]_vars

\* C18: a migration to new storage, in Reserve (also within Resize), in
\* EmplaceBack and in Emplace, that throws leaves the Vector as it was; for a
\* copyable T (whose move may throw: the elements are copied) every cell of
\* the old storage is as before the call; for a T that is not copyable (the
\* elements are moved) the elements migrated before the throwing one, a prefix
\* of the old storage, are moved-from and the others are as before.
C18_MigrationSelection ==
    [][/\ last'.op \in {"Reserve", "Resize", "PushBack", "Insert"}
       /\ last'.path = "realloc"
       /\ last'.thrown \in {"migrate", "prefix", "suffix"}
       => LET V == vec[last'.x]
              old == heap[V.buffer_]
              new == heap'[V.buffer_]
          IN  /\ vec' = vec
              /\ MigrateByMove = ~T.copyable
              /\ IF T.copyable THEN new = old
                 ELSE \E m \in 0..(V.size_ - 1) :
                        new = [i \in DOMAIN old |-> IF i <= m THEN Moved ELSE old[i]]]_vars

\* an Insert into a full Vector of copyable elements in which a prefix copy
\* threw
C18_Witness ==
    /\ last.op = "Insert"
    /\ last.path = "realloc"
    /\ last.thrown = "prefix"
    /\ T.copyable
    /\ vec[last.x].size_ = 2
    /\ \A i \in 1..2 : Elems(last.x)[i] # Moved

\* C19: a PushBack or an Insert at any index whose argument refers to the
\* element v[j] of the same Vector, and which returns, inserts the value v[j]
\* had before the call and leaves every other element with the value it had,
\* in the reallocating and in the in-place path.
C19_SelfReference ==
    [][last'.op \in {"PushBackSelf", "InsertSelf"} /\ last'.thrown = "" =>
       /\ \A j \in 0..MaxSize :
            last'.op = "PushBackSelf" /\ PushBackSelf("a", j, MaxSize) =>
              ElemsOf(vec'["a"], heap') = Append(Elems("a"), Elems("a")[j + 1])
       /\ \A i, j \in 0..MaxSize :
            last'.op = "InsertSelf" /\ InsertingSelf("a", i, j, MaxSize) =>
              ElemsOf(vec'["a"], heap') = InsertAt(Elems("a"), i, Elems("a")[j + 1])]_vars

\* v.Insert(v.begin(), v[1]) on [1, 2], in place: the element referred to was
\* shifted before the target slot was written
C19_Witness ==
    /\ last.op = "InsertSelf"
    /\ last.path = "inplace"
    /\ last.thrown = ""
    /\ Elems(last.x) = <<2, 1, 2>>
====
